---- MODULE Spec2Model ----
(***************************************************************************)
(* The locking-and-dispatch engine of src/runner.rs: callers of            *)
(* run_all_pending_jobs submit tasks to a runner's thread pool; each task  *)
(* checks a connection out of the pool, opens a transaction, locks the     *)
(* next unlocked row of background_jobs, runs the job behind catch_unwind, *)
(* deletes the row or records the failure, and commits.                    *)
(*                                                                         *)
(* The table is modelled as its committed contents (rows), the row locks   *)
(* (lock) and, per task, the write its open transaction has made but not   *)
(* yet committed (task[t].op).                                             *)
(***************************************************************************)
EXTENDS Integers, FiniteSets, TLC

\* ---- bounds of the model ----
NumJobs == 2
MaxTasks == 3
NumCallers == 2
NumRunners == 2
MaxTime == 1

\* ---- configuration of the runner (tests::runner) ----
ThreadCount == 2
PoolMaxSize == 4

Jobs == 1..NumJobs
Tasks == 1..MaxTasks
Callers == 1..NumCallers
Runners == 1..NumRunners

NoJob == 0

\* The runner each caller's thread holds a reference to.
RunnerOf(c) == ((c - 1) % NumRunners) + 1

\* The job types rows may carry, and the ones Builder::register was called for.
JobTypes == {"Foo", "Nonexistent"}
Registry == {"Foo"}

VARIABLES
    rows,         \* background_jobs as committed: per id, present/job_type/retries/last_retry
    lock,         \* per row, the tasks whose open transaction holds its row lock
    now,          \* the database clock
    task,         \* per task (closure given to thread_pool.execute): its position and locals
    caller,       \* per caller of run_all_pending_jobs: its position and locals
    next_task,    \* the next unused task identity
    checked_out,  \* per runner, connections of connection_pool currently checked out
    panic_count,  \* per runner, thread_pool.panic_count()
    hist          \* history, per row: invoked = calls of perform_fn, errors = attempts
                  \* that ended in Err, failed / succeeded = committed transactions of
                  \* an attempt that ended in Err / Ok, ok = runners a job returned Ok in

vars == <<rows, lock, now, task, caller, next_task, checked_out, panic_count, hist>>

\* ---- the storage contract (crate::storage) ----

\* Backoff window after the given number of failed attempts: non-decreasing,
\* and zero for a row that never failed.
Backoff(r) == r

\* A row is available iff it exists, no transaction holds its lock and its
\* backoff window has elapsed.
Available(j) ==
    /\ rows[j].present
    /\ lock[j] = {}
    /\ now >= rows[j].last_retry + Backoff(rows[j].retries)

\* storage::available_job_count
available_job_count == Cardinality({j \in Jobs : Available(j)})

\* storage::find_next_unlocked_job: the available row of smallest id (FOR
\* UPDATE SKIP LOCKED), NoJob when there is none.
find_next_unlocked_job ==
    IF \E j \in Jobs : Available(j)
    THEN CHOOSE j \in Jobs : Available(j) /\ \A k \in Jobs : Available(k) => j <= k
    ELSE NoJob

\* storage::delete_successful_job applied to the table.
delete_successful_job(tbl, id) ==
    [tbl EXCEPT ![id].present = FALSE]

\* storage::update_failed_job applied to the table.
update_failed_job(tbl, id) ==
    [tbl EXCEPT ![id].retries = @ + 1, ![id].last_retry = now]

\* Connection::transaction committing: the transaction's write reaches the table.
CommitWrite(tbl, op, id) ==
    CASE op = "delete" -> delete_successful_job(tbl, id)
      [] op = "update" -> update_failed_job(tbl, id)
      [] OTHER -> tbl

\* ---- the thread pool and the connection pool ----

\* Tasks of runner r that a worker thread of its pool is executing.
Active(r) ==
    {t \in Tasks : task[t].runner = r
                   /\ task[t].pc \in {"running", "txn", "handler", "retire", "commit"}}

Queued(r) == {t \in Tasks : task[t].runner = r /\ task[t].pc = "queued"}

\* pool.get() can hand out a connection.
PoolHasConnection(r) == checked_out[r] < PoolMaxSize

\* A closure that has ended keeps nothing: its captures and locals are dropped.
DoneTask == [pc |-> "done", runner |-> 0, job |-> NoJob, result |-> "none",
             op |-> "none", conn |-> FALSE, outcome |-> "none", seen |-> 0]

IdleTask == [pc |-> "unused", runner |-> 0, job |-> NoJob, result |-> "none",
             op |-> "none", conn |-> FALSE, outcome |-> "none", seen |-> 0]

IdleCaller == [pc |-> "idle", n |-> 0, i |-> 0, ret |-> "none"]

\* Task identities that calls of run_all_pending_jobs still have to use.
Reserved == Cardinality({ck \in Callers \X (1..NumJobs) : ck[2] <= caller[ck[1]].n - caller[ck[1]].i})

Init ==
    /\ rows \in [Jobs -> [present : {TRUE}, job_type : JobTypes,
                          retries : {0}, last_retry : {0}]]
    /\ lock = [j \in Jobs |-> {}]
    /\ now = 0
    /\ task = [t \in Tasks |-> IdleTask]
    /\ caller = [c \in Callers |-> IdleCaller]
    /\ next_task = 1
    /\ checked_out = [r \in Runners |-> 0]
    /\ panic_count = [r \in Runners |-> 0]
    /\ hist = [j \in Jobs |-> [invoked |-> 0, errors |-> 0, failed |-> 0,
                               succeeded |-> 0, ok |-> {}]]

\* ---- Runner::run_all_pending_jobs ----

\* try_connection() returned Some(conn).
TryConnection(c) ==
    /\ caller[c].pc = "idle"
    /\ PoolHasConnection(RunnerOf(c))
    /\ checked_out' = [checked_out EXCEPT ![RunnerOf(c)] = @ + 1]
    /\ caller' = [caller EXCEPT ![c] = [IdleCaller EXCEPT !.pc = "counting"]]
    /\ UNCHANGED <<rows, lock, now, task, next_task, panic_count, hist>>

\* Variant: the connection error is propagated (connection()? in place of
\* the if let on try_connection()).
TryConnectionFails_Propagates(c) ==
    /\ caller[c].pc = "idle"
    /\ caller' = [caller EXCEPT ![c] = [IdleCaller EXCEPT !.ret = "Err"]]
    /\ UNCHANGED <<rows, lock, now, task, next_task, checked_out, panic_count, hist>>

\* try_connection() returned None: Ok(()) without dispatching.
TryConnectionFails(c) ==
    /\ caller[c].pc = "idle"
    /\ caller' = [caller EXCEPT ![c] = [IdleCaller EXCEPT !.ret = "Ok"]]
    /\ UNCHANGED <<rows, lock, now, task, next_task, checked_out, panic_count, hist>>

\* storage::available_job_count(&conn)? returned Ok(n): the loop will run n times.
\* (The first guard after the position keeps the n closures within Tasks.)
AvailableJobCount(c) ==
    /\ caller[c].pc = "counting"
    /\ next_task + Reserved + available_job_count - 1 <= MaxTasks
    /\ caller' = [caller EXCEPT ![c].pc = "submitting",
                                ![c].n = available_job_count,
                                ![c].i = 0]
    /\ UNCHANGED <<rows, lock, now, task, next_task, checked_out, panic_count, hist>>

\* Variant: the error of available_job_count is swallowed (unwrap_or(0) in
\* place of `?`).
AvailableJobCountFails_Swallowed(c) ==
    /\ caller[c].pc = "counting"
    /\ caller' = [caller EXCEPT ![c] = [IdleCaller EXCEPT !.ret = "Ok"]]
    /\ checked_out' = [checked_out EXCEPT ![RunnerOf(c)] = @ - 1]
    /\ UNCHANGED <<rows, lock, now, task, next_task, panic_count, hist>>

\* storage::available_job_count(&conn)? returned Err: `?` returns it, conn is dropped.
AvailableJobCountFails(c) ==
    /\ caller[c].pc = "counting"
    /\ caller' = [caller EXCEPT ![c] = [IdleCaller EXCEPT !.ret = "Err"]]
    /\ checked_out' = [checked_out EXCEPT ![RunnerOf(c)] = @ - 1]
    /\ UNCHANGED <<rows, lock, now, task, next_task, panic_count, hist>>

\* One iteration of `for _ in 0..available_job_count`: run_single_job() hands
\* a closure to thread_pool.execute.
RunSingleJob(c) ==
    /\ caller[c].pc = "submitting"
    /\ caller[c].i < caller[c].n
    /\ task' = [task EXCEPT ![next_task] =
                    [IdleTask EXCEPT !.pc = "queued", !.runner = RunnerOf(c)]]
    /\ next_task' = next_task + 1
    /\ caller' = [caller EXCEPT ![c].i = @ + 1]
    /\ UNCHANGED <<rows, lock, now, checked_out, panic_count, hist>>

\* Variant: the call joins the thread pool before it returns.
RunAllReturn_Joins(c) ==
    /\ caller[c].pc = "submitting"
    /\ caller[c].i >= caller[c].n
    /\ Active(RunnerOf(c)) = {}
    /\ Queued(RunnerOf(c)) = {}
    /\ caller' = [caller EXCEPT ![c] = [IdleCaller EXCEPT !.ret = "Ok"]]
    /\ checked_out' = [checked_out EXCEPT ![RunnerOf(c)] = @ - 1]
    /\ UNCHANGED <<rows, lock, now, task, next_task, panic_count, hist>>

\* The loop is over: conn is dropped and Ok(()) returned.
RunAllReturn(c) ==
    /\ caller[c].pc = "submitting"
    /\ caller[c].i >= caller[c].n
    /\ caller' = [caller EXCEPT ![c] = [IdleCaller EXCEPT !.ret = "Ok"]]
    /\ checked_out' = [checked_out EXCEPT ![RunnerOf(c)] = @ - 1]
    /\ UNCHANGED <<rows, lock, now, task, next_task, panic_count, hist>>

\* ---- Runner::get_single_job: the closure run by a worker thread ----

\* Variant: a worker thread ends with its first closure and is not replaced.
StartTask_ThreadsNotReused(t) ==
    /\ task[t].pc = "queued"
    /\ Cardinality({u \in Tasks : task[u].pc \notin {"unused", "queued"}}) < ThreadCount
    /\ \A u \in Queued(task[t].runner) : t <= u
    /\ task' = [task EXCEPT ![t].pc = "running"]
    /\ UNCHANGED <<rows, lock, now, caller, next_task, checked_out, panic_count, hist>>

\* Variant: every closure gets a thread of its own at once (no pool limit).
StartTask_NoLimit(t) ==
    /\ task[t].pc = "queued"
    /\ task' = [task EXCEPT ![t].pc = "running"]
    /\ UNCHANGED <<rows, lock, now, caller, next_task, checked_out, panic_count, hist>>

\* thread_pool.execute: a free worker thread of the runner's pool takes the
\* task that has waited longest.
StartTask(t) ==
    /\ task[t].pc = "queued"
    /\ Cardinality(Active(task[t].runner)) < ThreadCount
    /\ \A u \in Queued(task[t].runner) : t <= u
    /\ task' = [task EXCEPT ![t].pc = "running"]
    /\ UNCHANGED <<rows, lock, now, caller, next_task, checked_out, panic_count, hist>>

\* pool.get() returned Ok(conn); conn.transaction opens the transaction.
PoolGet(t) ==
    /\ task[t].pc = "running"
    /\ PoolHasConnection(task[t].runner)
    /\ checked_out' = [checked_out EXCEPT ![task[t].runner] = @ + 1]
    /\ task' = [task EXCEPT ![t].pc = "txn", ![t].conn = TRUE]
    /\ UNCHANGED <<rows, lock, now, caller, next_task, panic_count, hist>>

\* Variant: the task gives up quietly when the pool has no connection for it.
PoolGetFails_Swallowed(t) ==
    /\ task[t].pc = "running"
    /\ task' = [task EXCEPT ![t] = DoneTask]
    /\ UNCHANGED <<rows, lock, now, caller, next_task, checked_out, panic_count, hist>>

\* pool.get() returned Err: expect("Could not acquire connection") panics.
PoolGetFails(t) ==
    /\ task[t].pc = "running"
    /\ task' = [task EXCEPT ![t] = DoneTask]
    /\ panic_count' = [panic_count EXCEPT ![task[t].runner] = @ + 1]
    /\ UNCHANGED <<rows, lock, now, caller, next_task, checked_out, hist>>

\* Variant: a job type the registry does not know is passed over with Ok(()).
RegistryGet_UnknownIsOk(t, j) ==
    IF rows[j].job_type \in Registry
    THEN /\ task' = [task EXCEPT ![t].pc = "handler", ![t].job = j,
                                 ![t].seen = rows[j].retries]
         /\ hist' = [hist EXCEPT ![j].invoked = @ + 1]
    ELSE /\ task' = [task EXCEPT ![t].pc = "retire", ![t].job = j,
                                 ![t].seen = rows[j].retries,
                                 ![t].result = "ok", ![t].outcome = "unknown"]
         /\ UNCHANGED hist

\* The closure of run_single_job up to the call of perform_fn: registry.get
\* finds the handler (it is then running) or ok_or_else makes the error
\* "Unknown job type".
RegistryGet(t, j) ==
    IF rows[j].job_type \in Registry
    THEN /\ task' = [task EXCEPT ![t].pc = "handler", ![t].job = j,
                                 ![t].seen = rows[j].retries]
         /\ hist' = [hist EXCEPT ![j].invoked = @ + 1]
    ELSE /\ task' = [task EXCEPT ![t].pc = "retire", ![t].job = j,
                                 ![t].seen = rows[j].retries,
                                 ![t].result = "err", ![t].outcome = "unknown"]
         /\ hist' = [hist EXCEPT ![j].errors = @ + 1]

\* Variant: the query does not skip locked rows: a task whose first eligible
\* row is locked by another transaction gets no row.
FindNextUnlockedJob_NoSkipLocked(t) ==
    /\ task[t].pc = "txn"
    /\ LET j == find_next_unlocked_job IN
        IF j = NoJob \/ (\E k \in Jobs : k < j /\ rows[k].present /\ lock[k] # {})
        THEN /\ task' = [task EXCEPT ![t].pc = "commit"]
             /\ UNCHANGED <<lock, hist>>
        ELSE /\ lock' = [lock EXCEPT ![j] = @ \cup {t}]
             /\ RegistryGet(t, j)
    /\ UNCHANGED <<rows, now, caller, next_task, checked_out, panic_count>>

\* Variant: without .optional(), NotFound is an Err like any other and the
\* task panics when no row is eligible.
FindNextUnlockedJob_NotOptional(t) ==
    /\ task[t].pc = "txn"
    /\ LET j == find_next_unlocked_job IN
        IF j = NoJob
        THEN /\ task' = [task EXCEPT ![t] = DoneTask]
             /\ checked_out' = [checked_out EXCEPT ![task[t].runner] = @ - 1]
             /\ panic_count' = [panic_count EXCEPT ![task[t].runner] = @ + 1]
             /\ UNCHANGED <<lock, hist>>
        ELSE /\ lock' = [lock EXCEPT ![j] = @ \cup {t}]
             /\ RegistryGet(t, j)
             /\ UNCHANGED <<checked_out, panic_count>>
    /\ UNCHANGED <<rows, now, caller, next_task>>

\* Variant: find_next_unlocked_job runs outside conn.transaction, so the row
\* lock it takes ends with the statement instead of lasting until the commit.
FindNextUnlockedJob_NoTransaction(t) ==
    /\ task[t].pc = "txn"
    /\ LET j == find_next_unlocked_job IN
        IF j = NoJob
        THEN /\ task' = [task EXCEPT ![t].pc = "commit"]
             /\ UNCHANGED hist
        ELSE RegistryGet(t, j)
    /\ UNCHANGED <<rows, lock, now, caller, next_task, checked_out, panic_count>>

\* find_next_unlocked_job(&conn).optional()? inside the transaction: Some(j)
\* locks the row for the life of the transaction and f(job) is called; None
\* returns Ok(()) from the transaction closure.
FindNextUnlockedJob(t) ==
    /\ task[t].pc = "txn"
    /\ LET j == find_next_unlocked_job IN
        IF j = NoJob
        THEN /\ task' = [task EXCEPT ![t].pc = "commit"]
             /\ UNCHANGED <<lock, hist>>
        ELSE /\ lock' = [lock EXCEPT ![j] = @ \cup {t}]
             /\ RegistryGet(t, j)
    /\ UNCHANGED <<rows, now, caller, next_task, checked_out, panic_count>>

\* Variant: the connection of a task that panics is not given back.
AbortTask_LeaksConnection(t) ==
    /\ task' = [task EXCEPT ![t] = DoneTask]
    /\ lock' = [j \in Jobs |-> lock[j] \ {t}]
    /\ panic_count' = [panic_count EXCEPT ![task[t].runner] = @ + 1]
    /\ UNCHANGED <<rows, now, caller, next_task, checked_out, hist>>

\* Variant: the write of the transaction survives the panic (no rollback).
AbortTask_NoRollback(t) ==
    /\ task' = [task EXCEPT ![t] = DoneTask]
    /\ rows' = CommitWrite(rows, task[t].op, task[t].job)
    /\ lock' = [j \in Jobs |-> lock[j] \ {t}]
    /\ checked_out' = [checked_out EXCEPT ![task[t].runner] = @ - 1]
    /\ panic_count' = [panic_count EXCEPT ![task[t].runner] = @ + 1]
    /\ UNCHANGED <<now, caller, next_task, hist>>

\* The task leaves the closure by a panic: the transaction is rolled back (its
\* write is discarded, its row lock released), conn is dropped back into the
\* pool and the thread pool counts the panic.
AbortTask(t) ==
    /\ task' = [task EXCEPT ![t] = DoneTask]
    /\ lock' = [j \in Jobs |-> lock[j] \ {t}]
    /\ checked_out' = [checked_out EXCEPT ![task[t].runner] = @ - 1]
    /\ panic_count' = [panic_count EXCEPT ![task[t].runner] = @ + 1]
    /\ UNCHANGED <<rows, now, caller, next_task, hist>>

\* find_next_unlocked_job returned an error other than NotFound: `?` leaves
\* the transaction with Err and expect("Could not retrieve or update job") panics.
FindNextUnlockedJobFails(t) ==
    /\ task[t].pc = "txn"
    /\ AbortTask(t)

\* catch_unwind(|| f(job)).map_err(try_to_extract_panic_info).and_then(|r| r):
\* a panic of the job becomes an Err like the one a job returns.
Firewall(outcome) == IF outcome = "ok" THEN "ok" ELSE "err"

\* Variant: f(job) is called without catch_unwind, so a panic of the job
\* unwinds through the transaction and the task.
HandlerReturns_NoCatchUnwind(t) ==
    /\ task[t].pc = "handler"
    /\ \E outcome \in {"ok", "err", "panic"} :
        IF outcome = "panic"
        THEN AbortTask(t)
        ELSE /\ task' = [task EXCEPT ![t].pc = "retire", ![t].outcome = outcome,
                                     ![t].result = outcome]
             /\ hist' = IF outcome = "ok"
                        THEN [hist EXCEPT ![task[t].job].ok = @ \cup {task[t].runner}]
                        ELSE [hist EXCEPT ![task[t].job].errors = @ + 1]
             /\ UNCHANGED <<rows, lock, now, caller, next_task, checked_out, panic_count>>

\* The job (perform_fn) ends: it returns Ok, returns Err, or panics.
HandlerReturns(t) ==
    /\ task[t].pc = "handler"
    /\ \E outcome \in {"ok", "err", "panic"} :
        /\ task' = [task EXCEPT ![t].pc = "retire", ![t].outcome = outcome,
                                ![t].result = Firewall(outcome)]
        /\ hist' = IF Firewall(outcome) = "ok"
                   THEN [hist EXCEPT ![task[t].job].ok = @ \cup {task[t].runner}]
                   ELSE [hist EXCEPT ![task[t].job].errors = @ + 1]
    /\ UNCHANGED <<rows, lock, now, caller, next_task, checked_out, panic_count>>

\* Variant: both arms delete the row (a failed job is dropped).
RetireOp_DeletesFailures(result) == "delete"

\* Variant: the Err arm logs the failure and forgets update_failed_job.
RetireOp_NoUpdate(result) == IF result = "ok" THEN "delete" ELSE "none"

\* Variant: the Ok arm forgets delete_successful_job.
RetireOp_NoDelete(result) == IF result = "ok" THEN "none" ELSE "update"

\* match result: Ok(_) => delete_successful_job, Err(e) => update_failed_job,
\* on the task's connection, inside its transaction.
RetireOp(result) == IF result = "ok" THEN "delete" ELSE "update"

\* Variant: the transaction ends with the job, and update_failed_job runs
\* after it: the row lock is gone before the failure is recorded.
Retire_AfterTransaction(t) ==
    /\ task[t].pc = "retire"
    /\ task' = [task EXCEPT ![t].pc = "commit", ![t].op = RetireOp(task[t].result)]
    /\ lock' = [j \in Jobs |-> IF task[t].result = "err" THEN lock[j] \ {t} ELSE lock[j]]
    /\ UNCHANGED <<rows, now, caller, next_task, checked_out, panic_count, hist>>

\* Variant: a job that fails after it has failed before is given up and its
\* row deleted (a cap on retries).
Retire_MaxRetries(t) ==
    /\ task[t].pc = "retire"
    /\ task' = [task EXCEPT ![t].pc = "commit",
                            ![t].op = IF task[t].result = "err" /\ task[t].seen >= 1
                                      THEN "delete" ELSE RetireOp(task[t].result)]
    /\ UNCHANGED <<rows, lock, now, caller, next_task, checked_out, panic_count, hist>>

Retire(t) ==
    /\ task[t].pc = "retire"
    /\ task' = [task EXCEPT ![t].pc = "commit", ![t].op = RetireOp(task[t].result)]
    /\ UNCHANGED <<rows, lock, now, caller, next_task, checked_out, panic_count, hist>>

\* delete_successful_job(&conn, job_id)? returned Err.
DeleteSuccessfulJobFails(t) ==
    /\ task[t].pc = "retire"
    /\ task[t].result = "ok"
    /\ AbortTask(t)

\* The transaction closure returned Ok(()): the transaction commits, which
\* makes its write visible and releases its row lock; conn is dropped and the
\* task ends.
Commit(t) ==
    /\ task[t].pc = "commit"
    /\ rows' = CommitWrite(rows, task[t].op, task[t].job)
    /\ lock' = [j \in Jobs |-> lock[j] \ {t}]
    /\ checked_out' = [checked_out EXCEPT ![task[t].runner] = @ - 1]
    /\ task' = [task EXCEPT ![t] = DoneTask]
    /\ hist' = CASE task[t].result = "ok" -> [hist EXCEPT ![task[t].job].succeeded = @ + 1]
                 [] task[t].result = "err" -> [hist EXCEPT ![task[t].job].failed = @ + 1]
                 [] OTHER -> hist
    /\ UNCHANGED <<now, caller, next_task, panic_count>>

\* The commit failed: transaction returns Err and expect panics.
CommitFails(t) ==
    /\ task[t].pc = "commit"
    /\ AbortTask(t)

\* ---- Runner::wait_for_jobs ----

\* Variant: wait_for_jobs checks the panic count without joining the pool.
WaitForJobs_NoJoin(c) ==
    /\ caller[c].pc = "idle"
    /\ caller' = [caller EXCEPT ![c] =
            [IdleCaller EXCEPT !.ret = IF panic_count[RunnerOf(c)] = 0
                                       THEN "Joined" ELSE "AssertFailed"]]
    /\ UNCHANGED <<rows, lock, now, task, next_task, checked_out, panic_count, hist>>

\* thread_pool.join() returns once no task of the pool is queued or active;
\* then assert_eq!(0, panic_count()).
WaitForJobs(c) ==
    /\ caller[c].pc = "idle"
    /\ Active(RunnerOf(c)) = {}
    /\ Queued(RunnerOf(c)) = {}
    /\ caller' = [caller EXCEPT ![c] =
            [IdleCaller EXCEPT !.ret = IF panic_count[RunnerOf(c)] = 0
                                       THEN "Joined" ELSE "AssertFailed"]]
    /\ UNCHANGED <<rows, lock, now, task, next_task, checked_out, panic_count, hist>>

\* ---- the environment ----

\* Time passes.
Tick ==
    /\ now < MaxTime
    /\ now' = now + 1
    /\ UNCHANGED <<rows, lock, task, caller, next_task, checked_out, panic_count, hist>>

\* Every pool and storage call succeeds.
Next ==
    \/ \E c \in Callers : TryConnection(c)
    \/ \E c \in Callers : AvailableJobCount(c)
    \/ \E c \in Callers : RunSingleJob(c)
    \/ \E c \in Callers : RunAllReturn(c)
    \/ \E t \in Tasks : StartTask(t)
    \/ \E t \in Tasks : PoolGet(t)
    \/ \E t \in Tasks : FindNextUnlockedJob(t)
    \/ \E t \in Tasks : HandlerReturns(t)
    \/ \E t \in Tasks : Retire(t)
    \/ \E t \in Tasks : Commit(t)
    \/ \E c \in Callers : WaitForJobs(c)
    \/ Tick

\* Pool and storage calls may also fail.
NextFaults ==
    \/ Next
    \/ \E c \in Callers : TryConnectionFails(c)
    \/ \E c \in Callers : AvailableJobCountFails(c)
    \/ \E t \in Tasks : PoolGetFails(t)
    \/ \E t \in Tasks : FindNextUnlockedJobFails(t)
    \/ \E t \in Tasks : DeleteSuccessfulJobFails(t)
    \/ \E t \in Tasks : CommitFails(t)

Spec == Init /\ [][Next]_vars

SpecFaults == Init /\ [][NextFaults]_vars

\* ---- properties ----

\* The tasks that hold a job: from the lock of its row to the end of the transaction.
Holding(t) == task[t].pc \in {"handler", "retire", "commit"} /\ task[t].job # NoJob

\* C1: at most one task holds the lock of any row, and two tasks whose jobs
\* are running at the same time were given rows with different ids.
C1_OneLockHolderPerRow ==
    /\ \A j \in Jobs : Cardinality(lock[j]) <= 1
    /\ \A t, u \in Tasks :
        (t # u /\ task[t].pc = "handler" /\ task[u].pc = "handler")
            => task[t].job # task[u].job

\* Two jobs are running at the same time.
C1_Witness ==
    \E t, u \in Tasks : t # u /\ task[t].pc = "handler" /\ task[u].pc = "handler"

\* C2: a row that a failed attempt has been made on is never unlocked with the
\* retries value it had when that attempt locked it: whenever a present row
\* is unlocked its retries counts every attempt that has ended in Err, and a
\* task holds the lock of its row from the job's start until its commit.
C2_NoUnlockedRowWithOldRetries ==
    /\ \A j \in Jobs :
        (rows[j].present /\ lock[j] = {}) => rows[j].retries = hist[j].errors
    /\ \A t \in Tasks : Holding(t) => t \in lock[task[t].job]
    /\ \A t \in Tasks :
        (Holding(t) /\ task[t].result = "err")
            => ~(lock[task[t].job] = {} /\ rows[task[t].job].retries = task[t].seen)

\* A job has returned an ordinary error; its task has recorded the failure in
\* its transaction and has not committed yet.
C2_Witness ==
    \E t \in Tasks : /\ task[t].pc = "commit"
                      /\ task[t].outcome = "err"
                      /\ task[t].op = "update"
                      /\ rows[task[t].job].retries = task[t].seen

\* C3: a row's retries equals the number of committed failed attempts on it;
\* it never decreases, and a step that changes it is the commit of a task
\* whose attempt failed, which adds exactly one and sets last_retry.
C3_RetriesCountCommittedFailures ==
    [][\A j \in Jobs :
        /\ rows'[j].retries = hist'[j].failed
        /\ rows'[j].retries >= rows[j].retries
        /\ rows'[j].retries # rows[j].retries =>
            /\ rows'[j].retries = rows[j].retries + 1
            /\ rows'[j].last_retry = now
            /\ rows'[j].present
            /\ \E t \in lock[j] : /\ task[t].result = "err"
                                   /\ task[t].pc = "commit"
                                   /\ task'[t].pc = "done"]_vars

\* A row has two committed failed attempts.
C3_Witness ==
    \E j \in Jobs : rows[j].retries = 2 /\ hist[j].failed = 2 /\ lock[j] = {}

\* thread_pool.join() would return for runner r, and the assertion would pass.
WaitReturns(r) == Active(r) = {} /\ Queued(r) = {} /\ panic_count[r] = 0

\* C4: a task whose job returned Ok deletes the row in the transaction that
\* locked it, so a row whose successful run has committed is absent; and
\* whenever wait_for_jobs returns for a runner, every row a job of that runner
\* returned Ok for is absent.
C4_SuccessfulJobsAreDeleted ==
    /\ \A t \in Tasks :
        (task[t].pc = "commit" /\ task[t].result = "ok")
            => (task[t].op = "delete" /\ t \in lock[task[t].job])
    /\ \A j \in Jobs : hist[j].succeeded > 0 => ~rows[j].present
    /\ \A r \in Runners : \A j \in Jobs :
        (WaitReturns(r) /\ r \in hist[j].ok) => ~rows[j].present

\* wait_for_jobs has returned after a job of the caller's runner returned Ok.
C4_Witness ==
    \E c \in Callers : \E j \in Jobs :
        /\ caller[c].ret = "Joined"
        /\ RunnerOf(c) \in hist[j].ok
        /\ hist[j].succeeded = 1
        /\ ~rows[j].present

\* C5: a panic of the job is caught and handled like an Err the job returns:
\* the task keeps the row locked, records the failure in its transaction and
\* commits, which leaves the row in the table with retries one higher; no
\* panic reaches the thread pool, whose panic count stays zero.
C5_PanicHandledLikeError ==
    [][/\ \A r \in Runners : panic_count'[r] = 0
       /\ \A t \in Tasks : task'[t].outcome = "panic" =>
            /\ task'[t].result = "err"
            /\ t \in lock'[task'[t].job]
            /\ task'[t].pc \in {"retire", "commit"}
            /\ task'[t].pc = "commit" => task'[t].op = "update"
       /\ \A t \in Tasks : (task[t].outcome = "panic" /\ task'[t].pc = "done") =>
            /\ task[t].pc = "commit"
            /\ rows'[task[t].job].present
            /\ rows'[task[t].job].retries = task[t].seen + 1
            /\ rows'[task[t].job].retries = rows[task[t].job].retries + 1]_vars

\* A job has panicked; its task has recorded the failure in its transaction
\* and is about to commit.
C5_Witness ==
    \E t \in Tasks : /\ task[t].outcome = "panic"
                      /\ task[t].pc = "commit"
                      /\ task[t].op = "update"

\* C6: a task that locks a row whose job_type is not registered calls no
\* handler and treats the job as failed: it keeps the row locked, records the
\* failure (never a delete) in its transaction and commits, which leaves the
\* row in the table with retries one higher.
C6_UnknownJobTypeIsAFailure ==
    [][\A t \in Tasks :
        /\ (task[t].pc = "txn" /\ task'[t].job # NoJob
                /\ rows[task'[t].job].job_type \notin Registry) =>
            /\ task'[t].pc = "retire"
            /\ task'[t].result = "err"
            /\ t \in lock'[task'[t].job]
            /\ hist'[task'[t].job].invoked = hist[task'[t].job].invoked
            /\ hist'[task'[t].job].errors = hist[task'[t].job].errors + 1
        /\ (task[t].job # NoJob /\ rows[task[t].job].job_type \notin Registry) =>
            /\ task[t].pc \in {"retire", "commit"}
            /\ task[t].result = "err"
            /\ task[t].op \in {"none", "update"}
            /\ task[t].pc = "commit" => task[t].op = "update"
            /\ hist'[task[t].job].invoked = 0
            /\ task'[t].pc = "done" =>
                /\ rows'[task[t].job].present
                /\ rows'[task[t].job].retries = rows[task[t].job].retries + 1]_vars

\* A row of unregistered type has been locked and committed by a task.
C6_Witness ==
    \E j \in Jobs :
        /\ rows[j].job_type \notin Registry
        /\ rows[j].present /\ rows[j].retries = 1 /\ lock[j] = {}
        /\ hist[j].invoked = 0

\* The step of caller c in which run_all_pending_jobs returns at once, for
\* want of a connection.
NoConnectionStep(c) ==
    /\ caller[c].pc = "idle"
    /\ caller'[c].pc = "idle"
    /\ caller'[c] # caller[c]
    /\ caller'[c].ret \in {"Ok", "Err"}

\* C7: when run_all_pending_jobs gets no connection it returns Ok, submits no
\* task and changes no row.
C7_NoConnectionReturnsOk ==
    [][\A c \in Callers : NoConnectionStep(c) =>
        /\ caller'[c].ret = "Ok"
        /\ task' = task
        /\ next_task' = next_task
        /\ rows' = rows
        /\ lock' = lock]_vars

\* A call has returned Ok for want of a connection, with rows available and
\* nothing ever submitted.
C7_Witness ==
    \E c \in Callers :
        /\ caller[c].pc = "idle" /\ caller[c].ret = "Ok"
        /\ next_task = 1
        /\ available_job_count = NumJobs
        /\ \A d \in Callers \ {c} : caller[d] = IdleCaller

\* C8: when available_job_count fails, run_all_pending_jobs returns the error
\* and submits no task.
C8_CountErrorIsReturned ==
    [][\A c \in Callers : (caller[c].pc = "counting" /\ caller'[c].pc = "idle") =>
        /\ caller'[c].ret = "Err"
        /\ task' = task
        /\ next_task' = next_task
        /\ rows' = rows]_vars

\* A call has returned Err with rows available and nothing ever submitted.
C8_Witness ==
    \E c \in Callers :
        /\ caller[c].pc = "idle" /\ caller[c].ret = "Err"
        /\ next_task = 1
        /\ available_job_count = NumJobs

\* C9: with a connection and a count of n, run_all_pending_jobs submits one
\* task to its thread pool per iteration, n in all, and returns Ok; once the
\* n tasks are submitted its return is enabled whatever the tasks are doing.
C9_SubmitsCountTasksAndReturns ==
    [][\A c \in Callers :
        /\ (caller[c].pc = "counting" /\ caller'[c].pc = "submitting") =>
            /\ caller'[c].n = available_job_count
            /\ caller'[c].i = 0
            /\ task' = task
        /\ (caller[c].pc = "submitting" /\ caller'[c].pc = "submitting"
                /\ caller'[c] # caller[c]) =>
            /\ caller'[c].i = caller[c].i + 1
            /\ caller'[c].n = caller[c].n
            /\ caller[c].i < caller[c].n
            /\ Queued(RunnerOf(c))' = Queued(RunnerOf(c)) \cup {next_task}
            /\ next_task' = next_task + 1
        /\ (caller[c].pc = "submitting" /\ caller'[c].pc = "idle") =>
            /\ caller'[c].ret = "Ok"
            /\ caller[c].i = caller[c].n
            /\ task' = task
        /\ (caller[c].pc = "submitting" /\ caller[c].i = caller[c].n) =>
            ENABLED RunAllReturn(c)]_vars

\* A call that counted NumJobs rows has returned Ok while all the tasks it
\* submitted are still queued.
C9_Witness ==
    \E c \in Callers :
        /\ caller[c].pc = "idle" /\ caller[c].ret = "Ok"
        /\ Cardinality(Queued(RunnerOf(c))) = NumJobs
        /\ next_task = NumJobs + 1
        /\ \A d \in Callers \ {c} : caller[d] = IdleCaller

\* C10 as stated: a row whose successful run has committed has had its
\* handler invoked by exactly one task in total.
C10_InvokedExactlyOnce ==
    \A j \in Jobs : hist[j].succeeded >= 1 => hist[j].invoked = 1

\* C10, amended: a task locks only a row no other task holds, so no two
\* tasks run the handler of the same row at the same time; a row has at most
\* one committed successful run, and once that run has committed no handler is
\* invoked for it again. Attempts that ended before the successful run locked
\* the row may have invoked the handler too.
C10_NoDuplicateRun ==
    [][\A j \in Jobs :
        /\ \A t \in Tasks : (task[t].job # j /\ task'[t].job = j) =>
            /\ lock[j] = {}
            /\ lock'[j] = {t}
            /\ hist[j].succeeded = 0
        /\ Cardinality({t \in Tasks : Holding(t)' /\ task'[t].job = j}) <= 1
        /\ hist'[j].succeeded <= 1
        /\ hist[j].succeeded = 1 => hist'[j].invoked = hist[j].invoked]_vars

\* Tasks of two runners hold a row each at the same time: the second to
\* arrive skipped the row the first had locked.
C10_Witness ==
    \E t, u \in Tasks :
        /\ task[t].runner # task[u].runner
        /\ task[t].pc = "handler" /\ task[u].pc = "handler"
        /\ task[t].job < task[u].job

\* The tasks submitted to runner r's thread pool that have not completed.
Unfinished(r) == {t \in Tasks : task[t].runner = r}

\* C11: wait_for_jobs returns only when every task submitted to the runner's
\* pool so far has completed; it returns normally only if the pool's panic
\* count is zero and fails its assertion if any task has ended by a panic.
C11_WaitJoinsThenAsserts ==
    [][\A c \in Callers :
        (/\ caller[c].pc = "idle"
         /\ caller'[c] # caller[c]
         /\ caller'[c].ret \in {"Joined", "AssertFailed"})
        => /\ Unfinished(RunnerOf(c)) = {}
           /\ caller'[c].ret = "Joined" <=> panic_count[RunnerOf(c)] = 0
           /\ caller'[c].ret = "AssertFailed" <=> panic_count[RunnerOf(c)] > 0]_vars

\* wait_for_jobs has failed its assertion on one runner, after a task of that
\* runner ended by a panic, and has returned normally on the other, whose
\* tasks have all completed without one.
C11_Witness ==
    \E c, d \in Callers :
        /\ caller[c].ret = "AssertFailed" /\ panic_count[RunnerOf(c)] > 0
        /\ caller[d].ret = "Joined" /\ panic_count[RunnerOf(d)] = 0
        /\ \E j \in Jobs : hist[j].succeeded + hist[j].failed > 0

\* C12: a task whose find_next_unlocked_job, delete_successful_job or commit
\* fails ends by a panic that the pool counts, and its transaction is rolled
\* back: no row changes, and the row it had locked is unlocked, present, has
\* the retries value it had when the task locked it and is available again.
\* A transaction that is open ends in one of two ways only: by its commit
\* (from the commit position, the panic count unchanged) or by this abort.
C12_FailureAbortsAndRollsBack ==
    [][\A t \in Tasks :
        (task[t].pc \in {"txn", "retire", "commit"} /\ task'[t].pc = "done")
        => \/ /\ task[t].pc = "commit"
              /\ panic_count' = panic_count
           \/ /\ panic_count' =
                    [panic_count EXCEPT ![task[t].runner] = @ + 1]
              /\ rows' = rows
              /\ \A j \in Jobs : t \notin lock'[j]
              /\ \A j \in Jobs : j = task[t].job =>
                    /\ lock'[j] = {}
                    /\ rows'[j].present
                    /\ rows'[j].retries = task[t].seen
                    /\ Available(j)']_vars

\* A job returned success, but the delete or the commit of its task failed:
\* the pool has counted a panic and the row is back, unlocked, with the
\* retries it had, available to the next task.
C12_Witness ==
    \E j \in Jobs :
        /\ hist[j].ok # {}
        /\ hist[j].succeeded = 0
        /\ \E r \in hist[j].ok : panic_count[r] > 0
        /\ rows[j].present /\ rows[j].retries = 0 /\ lock[j] = {}
        /\ Available(j)

\* C13: a task that the pool gives no connection ends by a panic before it
\* opens a transaction: the step adds one to the panic count of its runner
\* and nothing else changes (no row locked, no handler invoked, no row
\* modified, no connection taken); until it has a connection a started task
\* has no transaction, no job and no lock.
C13_NoConnectionPanicsBeforeTransaction ==
    [][\A t \in Tasks :
        /\ task[t].pc = "running" =>
            /\ ~task[t].conn /\ task[t].job = NoJob
            /\ \A j \in Jobs : t \notin lock[j]
        /\ (task[t].pc = "running" /\ task'[t].pc = "done") =>
            /\ panic_count' = [panic_count EXCEPT ![task[t].runner] = @ + 1]
            /\ rows' = rows /\ lock' = lock /\ hist' = hist
            /\ checked_out' = checked_out]_vars

\* Every task submitted so far has ended by a panic and no job was ever
\* locked or run: the rows are as they were at the start.
C13_Witness ==
    /\ next_task > 1
    /\ \A t \in Tasks : task[t].pc \in {"unused", "done"}
    /\ panic_count[1] + panic_count[2] = next_task - 1
    /\ \A j \in Jobs : /\ hist[j].invoked = 0 /\ hist[j].errors = 0
                         /\ rows[j].present /\ rows[j].retries = 0 /\ lock[j] = {}

\* C14: a task whose find_next_unlocked_job finds no eligible row goes on to
\* commit an empty transaction and ends cleanly: it has no job, holds no
\* lock and has no write, no handler is invoked, no row is locked, deleted
\* or updated, and the panic count is unchanged.
C14_NoJobExitsCleanly ==
    [][\A t \in Tasks :
        /\ (/\ task[t].pc = "txn" /\ task'[t].pc # "txn"
            /\ \A j \in Jobs : ~Available(j)) =>
            /\ task'[t].pc = "commit"
            /\ task'[t].job = NoJob /\ task'[t].op = "none"
            /\ rows' = rows /\ lock' = lock /\ hist' = hist
            /\ panic_count' = panic_count
        /\ (/\ task[t].pc = "commit" /\ task[t].job = NoJob
            /\ task'[t].pc # "commit") =>
            /\ task'[t].pc = "done"
            /\ \A j \in Jobs : t \notin lock[j]
            /\ rows' = rows /\ lock' = lock /\ hist' = hist
            /\ panic_count' = panic_count]_vars

\* A task has found no row, because other tasks hold every row that is left,
\* and is about to commit its empty transaction.
C14_Witness ==
    \E t \in Tasks :
        /\ task[t].pc = "commit" /\ task[t].job = NoJob
        /\ \E j \in Jobs : rows[j].present
        /\ \A j \in Jobs : rows[j].present => lock[j] # {}

\* The attempts on row j that have ended with a commit.
Attempts(j) == hist[j].succeeded + hist[j].failed

RECURSIVE TotalAttempts(_)
TotalAttempts(S) ==
    IF S = {} THEN 0
    ELSE LET j == CHOOSE k \in S : TRUE IN Attempts(j) + TotalAttempts(S \ {j})

\* The first call that counts finds every row available (Init) and submits
\* tasks 1..NumJobs; here those are the only tasks ever submitted, no call is
\* in progress and all of them have completed.
FirstCallDone ==
    /\ next_task = NumJobs + 1
    /\ \A c \in Callers : caller[c].pc = "idle"
    /\ \A t \in 1..NumJobs : task[t].pc = "done"

RECURSIVE TotalPanics(_)
TotalPanics(R) ==
    IF R = {} THEN 0
    ELSE LET r == CHOOSE q \in R : TRUE IN panic_count[r] + TotalPanics(R \ {r})

Eligible == {j \in Jobs : /\ rows[j].present /\ lock[j] = {}
                          /\ now >= rows[j].last_retry + Backoff(rows[j].retries)}

\* C16: there is no cap on retries. A row that no attempt has succeeded on
\* is never deleted, whatever its retries, and its retries is the number of
\* its failed attempts; a call counts every eligible row and a task that
\* looks for a job while a row is eligible takes one, whatever their retries.
C16_NoMaxRetries ==
    [][/\ \A j \in Jobs : hist'[j].succeeded = 0 =>
            /\ rows'[j].present
            /\ rows'[j].retries = hist'[j].failed
       /\ \A c \in Callers :
            (caller[c].pc = "counting" /\ caller'[c].pc = "submitting")
                => caller'[c].n = Cardinality(Eligible)
       /\ \A t \in Tasks :
            (task[t].pc = "txn" /\ task'[t].pc # "txn" /\ Eligible # {})
                => /\ task'[t].job \in Eligible
                   /\ task'[t].seen = rows[task'[t].job].retries
                   /\ t \in lock'[task'[t].job]]_vars

\* A job has failed twice: its row is still there with retries 2, and its
\* handler was invoked for the second attempt when retries was already 1.
C16_Witness ==
    \E j \in Jobs :
        /\ rows[j].present /\ rows[j].retries = 2
        /\ hist[j].invoked = 2 /\ hist[j].succeeded = 0

\* The connections of runner r's pool held by worker tasks, and those held by
\* calls of run_all_pending_jobs.
TaskConnections(r) == {t \in Tasks : task[t].runner = r /\ task[t].conn}

CallerConnections(r) ==
    {c \in Callers : RunnerOf(c) = r /\ caller[c].pc \in {"counting", "submitting"}}

\* C17: a task holds a connection exactly while its transaction is open, and
\* the pool's checked-out count is the number of tasks and calls holding one:
\* every exit of a task, by commit or by panic, gives its connection back,
\* so when all tasks of a runner have completed no task holds a connection
\* of its pool.
C17_ConnectionsReturned ==
    /\ \A t \in Tasks :
        task[t].conn <=> task[t].pc \in {"txn", "handler", "retire", "commit"}
    /\ \A r \in Runners :
        /\ checked_out[r] =
                Cardinality(TaskConnections(r)) + Cardinality(CallerConnections(r))
        /\ checked_out[r] <= PoolMaxSize
        /\ Unfinished(r) = {} => checked_out[r] = Cardinality(CallerConnections(r))

\* All tasks submitted have completed, one by a commit and one by a panic
\* after its job had returned success, no call is in progress, and every
\* connection is back in its pool.
C17_Witness ==
    /\ next_task > 2
    /\ \A t \in Tasks : task[t].pc \in {"unused", "done"}
    /\ \A c \in Callers : caller[c].pc = "idle"
    /\ \E j \in Jobs : Attempts(j) > 0
    /\ \E j \in Jobs : hist[j].ok # {} /\ hist[j].succeeded = 0 /\ rows[j].present
    /\ \A r \in Runners : checked_out[r] = 0

\* C18: a row is deleted only by the commit of the transaction of a task
\* that held its lock, had its handler invoked and got success back from it;
\* a step that ends otherwise (a panic, a failed attempt, an unknown type)
\* deletes nothing, and a deleted row does not come back.
C18_DeletedOnlyBySuccessfulCommit ==
    [][\A j \in Jobs :
        /\ ~rows[j].present => ~rows'[j].present
        /\ (rows[j].present /\ ~rows'[j].present) =>
            \E t \in lock[j] :
                /\ task[t].job = j
                /\ task[t].pc = "commit" /\ task'[t].pc = "done"
                /\ task[t].op = "delete"
                /\ task[t].outcome = "ok" /\ task[t].result = "ok"
                /\ rows[j].job_type \in Registry
                /\ hist[j].invoked >= 1
                /\ task[t].runner \in hist[j].ok
                /\ panic_count' = panic_count
                /\ hist'[j].succeeded = hist[j].succeeded + 1]_vars

\* One job was run with success and its row deleted by the commit; another
\* has only failed and its row is present.
C18_Witness ==
    \E j, k \in Jobs :
        /\ ~rows[j].present /\ hist[j].succeeded = 1
        /\ rows[k].present /\ hist[k].failed >= 1 /\ hist[k].succeeded = 0

\* Builder::build: ThreadPool::new(self.thread_count.unwrap_or(5)); 0 stands
\* for a thread_count that was not set.
DefaultThreadCount == 5

BuilderThreadCount(thread_count) ==
    IF thread_count = 0 THEN DefaultThreadCount ELSE thread_count

\* The rows locked by tasks of runner r, and the rows whose lock task t holds.
LockedBy(r) == {j \in Jobs : \E t \in lock[j] : task[t].runner = r}

LocksOf(t) == {j \in Jobs : t \in lock[j]}

\* C19: a runner built with thread_count n (5 when none is set) has at most
\* n tasks executing; so at most n rows are locked by its tasks and at most n
\* of its handlers run at a time, the other submitted tasks waiting in the
\* queue; and a task holds the lock of at most one row.
C19_AtMostThreadCountTasks ==
    /\ BuilderThreadCount(0) = 5
    /\ BuilderThreadCount(ThreadCount) = ThreadCount
    /\ \A r \in Runners :
        /\ Cardinality(Active(r)) <= BuilderThreadCount(ThreadCount)
        /\ Cardinality(LockedBy(r)) <= BuilderThreadCount(ThreadCount)
        /\ Cardinality({t \in Active(r) : task[t].pc = "handler"})
                <= BuilderThreadCount(ThreadCount)
        /\ Unfinished(r) = Active(r) \cup Queued(r)
    /\ \A t \in Tasks : Cardinality(LocksOf(t)) <= 1

\* A runner has as many handlers running as it has threads, each on a row of
\* its own, and one more task waiting in the queue.
C19_Witness ==
    \E r \in Runners :
        /\ Cardinality({t \in Active(r) : task[t].pc = "handler"}) = ThreadCount
        /\ Cardinality(LockedBy(r)) = ThreadCount
        /\ Queued(r) # {}

\* ---- progress ----

\* The pool answers every request of a task, with a connection or an error;
\* the storage calls and the commit succeed.
NextLive ==
    \/ Next
    \/ \E t \in Tasks : PoolGetFails(t)

\* The steps of the closure of task t, run by a worker thread of the pool.
TaskStep(t) ==
    \/ StartTask(t)
    \/ PoolGet(t) \/ PoolGetFails(t)
    \/ FindNextUnlockedJob(t)
    \/ HandlerReturns(t)
    \/ Retire(t)
    \/ Commit(t)

\* Worker threads keep running: a closure that can take a step takes one.
\* This covers the two conditions of progress: every handler returns
\* (HandlerReturns) and the pool answers every request (PoolGet, PoolGetFails).
\* Nothing is assumed of the callers: a call may stay where it is for ever.
SpecLive == Init /\ [][NextLive]_vars /\ \A t \in Tasks : WF_vars(TaskStep(t))

AllTasksComplete == \A t \in Tasks : task[t].pc \in {"unused", "done"}

\* C20: every submitted task eventually completes (again and again all tasks
\* submitted so far are complete, which is when wait_for_jobs returns or
\* fails its assertion), a complete task holds no lock and no connection, and
\* a task that asks the pool for a connection never finds it exhausted,
\* whether or not a call is holding its own connection while it submits.
C20_TasksComplete ==
    /\ []<>AllTasksComplete
    /\ [](\A t \in Tasks : task[t].pc = "done" =>
            ~task[t].conn /\ \A j \in Jobs : t \notin lock[j])
    /\ [](\A t \in Tasks : task[t].pc = "running" =>
            PoolHasConnection(task[t].runner))

\* Every task identity has been used and every task has completed, one of
\* them by a panic, while a call still holds its connection; wait_for_jobs
\* has failed its assertion on one runner.
C20_Witness ==
    /\ next_task = MaxTasks + 1
    /\ AllTasksComplete
    /\ \E c \in Callers : caller[c].ret = "AssertFailed"
    /\ \E c \in Callers : caller[c].pc \in {"counting", "submitting"}

====
